---------------------------- MODULE Spec2Model ----------------------------
(***************************************************************************)
(* Model of the live directory index of HULKs/moments:                     *)
(*   src/src/index.rs      Indexer::spawn (watcher, Notify, actor loop),   *)
(*                         Indexer::index, detect_updates, collect_images  *)
(*   src/src/websocket.rs  handle_websocket (resubscribe, snapshot, loop)  *)
(* The storage directory, the debouncer (notify_debouncer_mini), the       *)
(* tokio Notify, the tokio broadcast channel and the tokio mpsc/oneshot    *)
(* channels are modelled by what the code relies on them to do.            *)
(***************************************************************************)
EXTENDS Integers, Sequences, FiniteSets, TLC

(***************************************************************************)
(* Bounds of the model.                                                    *)
(***************************************************************************)
\* largest modification time a file can carry (0 stands for "no such file")
MaxMtime == 2
\* number of filesystem operations in a run of Spec
MaxFsOps == 3
\* number of filesystem operations in a run of SpecLag (enough to overrun
\* the broadcast buffer once)
MaxLagOps == 17

(***************************************************************************)
(* Program constants.                                                      *)
(***************************************************************************)
\* broadcast::channel(10), index.rs:76
UpdatesCapacity == 10
\* mpsc::channel::<oneshot::Sender<Index>>(10), index.rs:77
IndexCapacity == 10

(***************************************************************************)
(* The storage root.  A path is a stem and an extension; the directories   *)
(* (the root itself and "sub") always exist, a file exists when its        *)
(* modification time on disk is not 0.                                     *)
(***************************************************************************)
PathOf(stem, ext) == [stem |-> stem, ext |-> ext]

FileA == PathOf("a", "jpg")
FileB == PathOf("sub/b", "PNG")
FileN == PathOf("notes", "txt")

Files == {FileA, FileB, FileN}

\* the files under the storage root that are images
EligibleFiles == {FileA, FileB}
Dirs == {PathOf("", ""), PathOf("sub", ""), PathOf("album", "jpg")}

\* the files of the runs that look at the filter of a scan: more extensions,
\* a file without one and a symbolic link to an image
FileC == PathOf("c", "JpEg")
FileD == PathOf("sub/d", "heic")
FileE == PathOf("e", "")
FileL == PathOf("link", "jpg")
ScanFiles == Files \cup {FileC, FileD, FileE, FileL}
Symlinks == {FileL}
MaxScanOps == 1
Mtimes == 1..MaxMtime

\* the websocket connections, and those opened in a run of Spec
Subscribers == {"w1", "w2"}
Clients == {"w1"}

\* OsStr::to_ascii_lowercase on the extensions that occur
to_ascii_lowercase(ext) ==
    CASE ext = "PNG" -> "png"
      [] ext = "JPG" -> "jpg"
      [] ext = "JpEg" -> "jpeg"
      [] OTHER -> ext

\* the closure without the to_ascii_lowercase
filter_entry_case_sensitive(entry) ==
    \/ entry.kind = "dir"
    \/ /\ entry.kind = "file"
       /\ entry.path.ext # ""
       /\ entry.path.ext \in {"jpg", "jpeg", "png", "heic"}

\* the closure given to filter_entry: directories, and files with an image
\* extension compared case-insensitively
filter_entry(entry) ==
    \/ entry.kind = "dir"
    \/ /\ entry.kind = "file"
       /\ entry.path.ext # ""
       /\ to_ascii_lowercase(entry.path.ext) \in {"jpg", "jpeg", "png", "heic"}

\* DirEntry::file_type, which does not follow links
file_type(p) == IF p \in Symlinks THEN "symlink" ELSE "file"

\* what WalkDir yields when it reads a directory of the tree d, the storage
\* root "" or "sub" under it: the root itself before its entries, every
\* entry with the file type of the listing
WalkDir(dir, d) ==
    {[path |-> p, kind |-> "dir"] : p \in {q \in Dirs : dir = ""}}
        \cup {[path |-> f, kind |-> file_type(f)] :
                f \in {g \in DOMAIN d : d[g] # 0 /\ (g \in {FileB, FileD}) = (dir = "sub")}}

\* the entries of one directory collected at line 145
walk_entries(dir, d) == {e \in WalkDir(dir, d) : filter_entry(e)}

\* the results of collect_images
Err == [ok |-> FALSE, images |-> {}]
Ok(images) == [ok |-> TRUE, images |-> images]

\* the entries the loop of lines 147-159 reads: it skips the directories
FileEntries(entries) == {e \in entries : e.kind # "dir"}

\* lines 152-153, metadata(path).await?.modified()?: Err when the file is
\* gone or the storage root cannot be searched
metadata(p, d, w) ==
    IF w /\ d[p] # 0
    THEN [ok |-> TRUE, modified |-> d[p]]
    ELSE [ok |-> FALSE, modified |-> 0]

\* a difference on whole images, as a derived PartialEq/Hash would give
difference_by_value(a, b) == a \ b

\* HashSet<Image>::difference with Image's PartialEq/Hash on the path alone
difference(a, b) == {i \in a : \A j \in b : j.path # i.path}

\* the two differences taken for each other
detect_updates_swapped(old, new) ==
    [additions |-> difference(old, new), deletions |-> difference(new, old)]

detect_updates(old, new) ==
    [additions |-> difference(new, old), deletions |-> difference(old, new)]

\* the test of line 90 (ShouldSendEmpty: the send without the test)
ShouldSendEmpty(updates) == TRUE
ShouldSendAdditions(updates) == updates.additions # {}
ShouldSend(updates) == updates.additions # {} \/ updates.deletions # {}

\* line 93: images = new_images (MergeIndex: new images inserted in place)
MergeIndex(old, new) == old \cup difference(new, old)
ReplaceIndex(old, new) == new

(***************************************************************************)
(* tokio::sync::Notify: notify_one wakes the waiter when there is one and  *)
(* stores a permit, at most one, when there is none.                       *)
(* (notify_waiters: no permit is stored when the actor is not waiting.)    *)
(***************************************************************************)
notify_waiters(p, waiting) == p
notify_one(p, waiting) == IF waiting THEN p ELSE 1

(***************************************************************************)
(* tokio::sync::broadcast: the buffer holds the capacity rounded up to a   *)
(* power of two; a send overwrites the oldest slot and never waits.        *)
(***************************************************************************)
RECURSIVE next_power_of_two_from(_, _)
next_power_of_two_from(n, p) ==
    IF p >= n THEN p ELSE next_power_of_two_from(n, 2 * p)
next_power_of_two(n) == next_power_of_two_from(n, 1)

BufferSlots == next_power_of_two(UpdatesCapacity)


\* Sender::send (index.rs:91) is not async: it never waits for a receiver
\* (send_waits_for_receivers: a channel that waits for room in every receiver)
send_waits_for_receivers(log, cursors) ==
    \A s \in DOMAIN cursors : Len(log) - cursors[s] < BufferSlots
send_ready(log, cursors) == TRUE

\* a recv that hands out the oldest value left instead of the Lagged error
recv_skipping_lost(log, next) ==
    IF next < Len(log) - BufferSlots
    THEN [result |-> "Ok", next |-> Len(log) - BufferSlots + 1]
    ELSE IF next < Len(log)
         THEN [result |-> "Ok", next |-> next + 1]
         ELSE [result |-> "Empty", next |-> next]

\* the receivers of the channel: the one the Indexer handle keeps in its
\* `updates` field (index.rs:99) and those of the websocket tasks
\* (receiver_count_without_handle: the handle's receiver dropped after spawn)
receiver_count_without_handle(cursors) == Cardinality(DOMAIN cursors)
receiver_count(cursors) == Cardinality(DOMAIN cursors) + 1

\* Sender::send returns Err, and the unwrap of line 91 panics, when the
\* channel has no receiver
send_ok(cursors) == receiver_count(cursors) > 0

\* Receiver::recv for a receiver that has consumed the first `next` values
recv(log, next) ==
    IF next < Len(log) - BufferSlots
    THEN [result |-> "Lagged", next |-> Len(log) - BufferSlots]
    ELSE IF next < Len(log)
         THEN [result |-> "Ok", next |-> next + 1]
         ELSE [result |-> "Empty", next |-> next]

\* Receiver::resubscribe: the new receiver starts at the tail of the channel
\* (resubscribe_from_oldest: it starts at the oldest value the buffer holds)
resubscribe_from_oldest(log) ==
    IF Len(log) > BufferSlots THEN Len(log) - BufferSlots ELSE 0
resubscribe(log) == Len(log)

(***************************************************************************)
(* State.                                                                  *)
(***************************************************************************)
VARIABLES
    disk,         \* storage root: Files -> modification time, 0 when absent
    walkable,     \* whether the storage root can be read
    fsOps,        \* filesystem operations so far
    rawEvents,    \* raw watcher events in the current debounce window
    permits,      \* permits stored in the Notify
    sigSince,     \* notify_one calls since the actor last began a rescan
    actor,        \* position of the actor task
    entries,      \* `entries` of the collect_images call in progress
    found,        \* `images` of a collect_images under way
    images,       \* `images` of the actor task
    lastScan,     \* result of the last completed collect_images
    sent,         \* every Updates value sent on the broadcast channel
    queue,        \* oneshot senders waiting in the mpsc channel
    ws,           \* position of each handle_websocket task
    cursor,       \* next position of `updates` in each handle_websocket
    subAt,        \* Len(sent) when the task resubscribed
    snapshot,     \* `index` of each handle_websocket
    snapPos,      \* Len(sent) when the actor answered the task's request
    socket        \* messages each task has sent on its socket

VARIABLES
    startIndex,   \* `images` as the initial collect_images of the actor set it
    source,       \* the image of the uploaded file and of the stored file
    stored,       \* what the file of the path under the storage root holds
    cacheFile,    \* the file at the destination path under the cache root
    task,         \* position of each build task
    held,         \* encoded thumbnail each build task holds
    readBuffer,   \* `buffer` of each build task: the Vec read_to_end fills
    pending,      \* whether a write of `held` to the destination is under way
    result,       \* what each build task returned
    transforms,   \* decode/resize/encode runs of each build task
    creates,      \* File::create calls of each build task on the destination
    tin,          \* input of a load_and_resize call (cache.rs)
    tout          \* its result

vars == <<disk, walkable, fsOps, rawEvents, permits, sigSince,
          actor, entries, found, images, lastScan, sent, queue, ws, cursor, subAt,
          snapshot, snapPos, socket, startIndex, source, stored, cacheFile,
          task, held, readBuffer, pending, result, transforms, creates, tin, tout>>

buildVars ==
    <<source, stored, cacheFile, task, held, readBuffer, pending,
      result, transforms, creates>>
xformVars == <<tin, tout>>

fsVars == <<disk, walkable, fsOps>>
actorVars == <<actor, entries, found, images, lastScan, sent>>
wsVars == <<ws, cursor, subAt, snapshot, snapPos, socket>>

IndexMessage(index) == [kind |-> "index", images |-> index]
UpdateMessage(update) == [kind |-> "update", update |-> update]

(***************************************************************************)
(* The transform (cache.rs:40-87).  A decoded image is its dimensions and  *)
(* the content of its four corners, <<top-left, top-right, bottom-right,   *)
(* bottom-left>>: the eight orientations of the table all differ on them.  *)
(***************************************************************************)
MaxSide == 3
MaxOrientation == 9
MaxQuality == 2

Max(a, b) == IF a >= b THEN a ELSE b

Picture(w, h, px) == [w |-> w, h |-> h, px |-> px]
Corners == <<"p", "q", "r", "s">>

\* the operations of DynamicImage that lines 55-63 call
fliph(i) == Picture(i.w, i.h, <<i.px[2], i.px[1], i.px[4], i.px[3]>>)
flipv(i) == Picture(i.w, i.h, <<i.px[4], i.px[3], i.px[2], i.px[1]>>)
rotate180(i) == Picture(i.w, i.h, <<i.px[3], i.px[4], i.px[1], i.px[2]>>)
rotate90(i) == Picture(i.h, i.w, <<i.px[4], i.px[1], i.px[2], i.px[3]>>)
rotate270(i) == Picture(i.h, i.w, <<i.px[2], i.px[3], i.px[4], i.px[1]>>)

\* f64::round of n/d for naturals: half rounds away from zero
round_div(n, d) == (2 * n + d) \div (2 * d)

\* DynamicImage::resize (line 53): the largest size of the same aspect ratio
\* within nwidth x nheight, each side at least 1
resize(i, nwidth, nheight) ==
    LET byWidth == nwidth * i.h <= nheight * i.w
        nw == IF byWidth THEN nwidth ELSE round_div(i.w * nheight, i.h)
        nh == IF byWidth THEN round_div(i.h * nwidth, i.w) ELSE nheight
    IN  Picture(Max(nw, 1), Max(nh, 1), i.px)

\* the bytes of a file: whether image::load_from_memory decodes them, the
\* colour type and the picture they decode to, and their EXIF orientation
\* field
ExifField(state, value) == [state |-> state, value |-> value]
Buffer(decodable, color, exif, picture) ==
    [decodable |-> decodable, color |-> color, exif |-> exif, picture |-> picture]

\* colour types of a decoded image: one the JPEG encoder writes, one it does
\* not
Colors == {"Rgb8", "Rgb16"}
JpegColors == {"Rgb8"}

\* lines 77-87: the field's first value, 1 when the EXIF block cannot be
\* read, has no orientation field or the field holds no unsigned integer
extract_exif_orientation(buffer) ==
    IF buffer.exif.state = "uint" THEN buffer.exif.value ELSE 1

\* the JPEG bytes of a picture, a sequence of segments: the frame header,
\* then one segment of scan data for each row of the picture
Encode(picture, quality) ==
    [k \in 1..(picture.h + 1) |->
        [row |-> k - 1, picture |-> picture, quality |-> quality]]
NoBytes == <<>>
ImageOk(bytes) == [ok |-> TRUE, error |-> "none", bytes |-> bytes]
ImageError(kind) == [ok |-> FALSE, error |-> kind, bytes |-> NoBytes]

\* lines 71-73, JpegEncoder::new_with_quality and write_with_encoder(..)?
write_with_encoder(picture, color, quality) ==
    IF color \in JpegColors
    THEN ImageOk(Encode(picture, quality))
    ELSE ImageError("Unsupported(Color)")

\* a table that takes the two quarter turns for each other
oriented_turns_swapped(orientation, resized) ==
    CASE orientation \in {0, 1} -> [ok |-> TRUE, picture |-> resized]
      [] orientation = 2 -> [ok |-> TRUE, picture |-> fliph(resized)]
      [] orientation = 3 -> [ok |-> TRUE, picture |-> rotate180(resized)]
      [] orientation = 4 -> [ok |-> TRUE, picture |-> flipv(resized)]
      [] orientation = 5 -> [ok |-> TRUE, picture |-> fliph(rotate90(resized))]
      [] orientation = 6 -> [ok |-> TRUE, picture |-> rotate270(resized)]
      [] orientation = 7 -> [ok |-> TRUE, picture |-> fliph(rotate270(resized))]
      [] orientation = 8 -> [ok |-> TRUE, picture |-> rotate90(resized)]
      [] OTHER -> [ok |-> FALSE, picture |-> resized]

\* lines 55-69, the match on the orientation
oriented(orientation, resized) ==
    CASE orientation \in {0, 1} -> [ok |-> TRUE, picture |-> resized]
      [] orientation = 2 -> [ok |-> TRUE, picture |-> fliph(resized)]
      [] orientation = 3 -> [ok |-> TRUE, picture |-> rotate180(resized)]
      [] orientation = 4 -> [ok |-> TRUE, picture |-> flipv(resized)]
      [] orientation = 5 -> [ok |-> TRUE, picture |-> fliph(rotate90(resized))]
      [] orientation = 6 -> [ok |-> TRUE, picture |-> rotate90(resized)]
      [] orientation = 7 -> [ok |-> TRUE, picture |-> fliph(rotate270(resized))]
      [] orientation = 8 -> [ok |-> TRUE, picture |-> rotate270(resized)]
      [] OTHER -> [ok |-> FALSE, picture |-> resized]

\* cache.rs:40-75
load_and_resize(buffer, max_size, quality) ==
    LET orientation == extract_exif_orientation(buffer) IN
    IF ~buffer.decodable
    THEN ImageError("Decoding")
    ELSE LET turned == oriented(orientation, resize(buffer.picture, max_size, max_size)) IN
         IF turned.ok
         THEN write_with_encoder(turned.picture, buffer.color, quality)
         ELSE ImageError("Unsupported(GenericFeature)")

\* images.rs:85-116 and upload.rs:94-120, after the file is read: decode,
\* resize, encode; neither reads the orientation
load_and_resize_plain(buffer, max_size, quality) ==
    IF ~buffer.decodable
    THEN ImageError("Decoding")
    ELSE write_with_encoder(resize(buffer.picture, max_size, max_size),
                            buffer.color, quality)

ExifFields ==
    {ExifField("unreadable", 0), ExifField("absent", 0), ExifField("ascii", 0)}
        \cup {ExifField("uint", v) : v \in 0..MaxOrientation}
Buffers ==
    {Buffer(d, c, e, Picture(w, h, Corners)) :
        d \in BOOLEAN, c \in Colors, e \in ExifFields,
        w \in 1..MaxSide, h \in 1..MaxSide}
TransformInputs ==
    [buffer : Buffers, max_size : 1..MaxSide, quality : 1..MaxQuality]
NotCalled == ImageError("not called")

(***************************************************************************)
(* The thumbnail cache (images.rs, cache.rs, upload.rs).  One relative     *)
(* path is followed: FileA under the storage root, `cacheFile` under the   *)
(* cache root.  `source` is what the stored or uploaded file holds.        *)
(***************************************************************************)
\* two requests of serve_and_cache, one call of cache_image, one upload
Servers == {"s1", "s2"}
Cachers == {"c1"}
Uploads == {"u1"}
Tasks == Servers \cup Cachers \cup Uploads
\* the calls that read the stored file
Builders == Servers \cup Cachers

NoFile == [exists |-> FALSE, data |-> NoBytes]
FileOf(data) == [exists |-> TRUE, data |-> data]
NoResult == [state |-> "none", error |-> "none", data |-> NoBytes]
Returned(data) == [state |-> "ok", error |-> "none", data |-> data]
Failed(kind) == [state |-> "err", error |-> kind, data |-> NoBytes]
\* the handler task ended in the panic of an unwrap
Panicked == [state |-> "panic", error |-> "unwrap", data |-> NoBytes]

\* what the stored file holds once it is written out
WholeFile == <<source>>

\* Vec::with_capacity(file.metadata().await?.len() as usize)
with_capacity(len) == [bytes |-> NoBytes, capacity |-> len, starting_capacity |-> len]

\* Configuration.max_cached_image_size and .jpeg_image_quality
max_cached_image_size == MaxSide - 1
jpeg_image_quality == MaxQuality

ExifSources ==
    {ExifField("absent", 0), ExifField("uint", 6), ExifField("uint", MaxOrientation)}
Sources ==
    {Buffer(d, c, e, Picture(MaxSide, 1, Corners)) :
        d \in BOOLEAN, c \in Colors, e \in ExifSources}
GoodSource == Buffer(TRUE, "Rgb8", ExifField("absent", 0), Picture(MaxSide, 1, Corners))

\* no build runs
BuildIdle ==
    /\ source = GoodSource
    /\ stored = WholeFile
    /\ cacheFile = NoFile
    /\ task = [t \in Tasks |-> "off"]
    /\ held = [t \in Tasks |-> NoBytes]
    /\ readBuffer = [t \in Tasks |-> with_capacity(0)]
    /\ pending = [t \in Tasks |-> FALSE]
    /\ result = [t \in Tasks |-> NoResult]
    /\ transforms = [t \in Tasks |-> 0]
    /\ creates = [t \in Tasks |-> 0]

\* no call of load_and_resize
TransformIdle ==
    /\ tin = [buffer |-> GoodSource, max_size |-> 1, quality |-> 1]
    /\ tout = NotCalled

InitCommon ==
    /\ walkable = TRUE
    /\ fsOps = 0
    /\ rawEvents = 0
    /\ permits = 0
    /\ sigSince = 0
    /\ actor = "start"
    /\ entries = {}
    /\ found = {}
    /\ images = {}
    /\ lastScan = Err
    /\ sent = <<>>
    /\ queue = <<>>
    /\ ws = [s \in Subscribers |-> "new"]
    /\ cursor = [s \in Subscribers |-> 0]
    /\ subAt = [s \in Subscribers |-> 0]
    /\ snapshot = [s \in Subscribers |-> {}]
    /\ snapPos = [s \in Subscribers |-> 0]
    /\ socket = [s \in Subscribers |-> <<>>]
    /\ startIndex = {}

\* the storage directory holds a file that is no image and, in sub/, one
\* image when spawn is called
Init ==
    /\ disk = [f \in Files |-> IF f = FileA THEN 0 ELSE 1]
    /\ InitCommon
    /\ BuildIdle
    /\ TransformIdle

(***************************************************************************)
(* The filesystem and the watcher.                                         *)
(***************************************************************************)
\* a file is created, or rewritten with a later modification time m
FsWrite(f, m, bound) ==
    /\ fsOps < bound
    /\ disk[f] < m
    /\ disk' = [disk EXCEPT ![f] = m]
    /\ fsOps' = fsOps + 1
    /\ rawEvents' = rawEvents + 1
    /\ UNCHANGED <<walkable, permits, sigSince, queue>>
    /\ UNCHANGED <<actorVars, wsVars>>
    /\ UNCHANGED <<startIndex, buildVars, xformVars>>

FsRemove(f, bound) ==
    /\ fsOps < bound
    /\ disk[f] # 0
    /\ disk' = [disk EXCEPT ![f] = 0]
    /\ fsOps' = fsOps + 1
    /\ rawEvents' = rawEvents + 1
    /\ UNCHANGED <<walkable, permits, sigSince, queue>>
    /\ UNCHANGED <<actorVars, wsVars>>
    /\ UNCHANGED <<startIndex, buildVars, xformVars>>

\* the permissions of the storage root change
FsChmod(bound) ==
    /\ fsOps < bound
    /\ walkable' = ~walkable
    /\ fsOps' = fsOps + 1
    /\ rawEvents' = rawEvents + 1
    /\ UNCHANGED <<disk, permits, sigSince, queue>>
    /\ UNCHANGED <<actorVars, wsVars>>
    /\ UNCHANGED <<startIndex, buildVars, xformVars>>

\* a Notified future of the actor is in the wait list: the actor is parked in
\* select! and no notification is left for it
Waiting == actor = "idle" /\ permits = 0

\* the debounce window ends: the callback runs once with Ok(events).  With
\* Err(error) the callback prints and changes nothing (line 68).  A waiting
\* actor is woken; otherwise notify_one stores the permit.
DebouncerTick ==
    /\ rawEvents > 0
    /\ rawEvents' = 0
    /\ permits' = notify_one(permits, Waiting)
    /\ actor' = IF Waiting THEN "woken" ELSE actor
    /\ sigSince' = sigSince + 1
    /\ UNCHANGED <<fsVars, queue, entries, found, images, lastScan, sent, wsVars>>
    /\ UNCHANGED <<startIndex, buildVars, xformVars>>

\* the cursors of the receivers the websocket tasks hold
LiveCursors ==
    [s \in {t \in Subscribers :
                ws[t] \in {"subscribed", "waiting", "got", "streaming", "sending"}}
        |-> cursor[s]]

(***************************************************************************)
(* The actor task (index.rs:79-97).  WalkDir is not async, and it reads    *)
(* each directory when it opens it: the storage root first, sub/ after it, *)
(* while other processes and threads change the tree.  Each of the two     *)
(* reads is a step.  The loop awaits metadata once per file: each is a     *)
(* step, and what follows the last one runs with it.                       *)
(***************************************************************************)
\* the unwrap of a failed collect_images ends the task; its channel ends drop
Panic ==
    /\ actor' = "panicked"
    /\ entries' = {}
    /\ found' = {}
    /\ queue' = <<>>
    /\ UNCHANGED <<images, lastScan, sent>>

\* line 81 after collect_images returned Ok(new_images)
FinishStartup(new_images) ==
    /\ images' = new_images
    /\ lastScan' = Ok(new_images)
    /\ entries' = {}
    /\ found' = {}
    /\ actor' = "idle"
    /\ UNCHANGED <<sent, queue>>

\* lines 89-93 after collect_images returned Ok(new_images): the diff, the
\* send and its unwrap, the swap
FinishRescan(new_images) ==
    LET updates == detect_updates(images, new_images) IN
    IF ShouldSend(updates) /\ ~send_ok(LiveCursors)
    THEN Panic
    ELSE /\ IF ShouldSend(updates)
            THEN /\ send_ready(sent, LiveCursors)
                 /\ sent' = Append(sent, updates)
            ELSE sent' = sent
         /\ images' = ReplaceIndex(images, new_images)
         /\ lastScan' = Ok(new_images)
         /\ entries' = {}
         /\ found' = {}
         /\ actor' = "idle"
         /\ UNCHANGED queue

\* lines 129-145, the walk reads the storage root: Err, or the entries of the
\* root.  The walk reads sub/ when it opens it, later
WalkedRoot(next) ==
    IF ~walkable
    THEN Panic
    ELSE /\ entries' = walk_entries("", disk)
         /\ found' = {}
         /\ actor' = next
         /\ UNCHANGED <<images, lastScan, sent, queue>>

\* lines 129-146, the walk reads sub/ and ends: Err, the whole scan when no
\* file was collected, or the entries the loop has to read
Walked(next, finished) ==
    IF ~walkable
    THEN Panic
    ELSE IF FileEntries(entries \cup walk_entries("sub", disk)) = {}
         THEN finished
         ELSE /\ entries' = entries \cup walk_entries("sub", disk)
              /\ actor' = next
              /\ UNCHANGED <<found, images, lastScan, sent, queue>>

\* line 81, the walk of collect_images at the storage root
StartupWalk ==
    /\ actor = "start"
    /\ WalkedRoot("start_listed")
    /\ UNCHANGED <<fsVars, rawEvents, permits, sigSince, wsVars>>
    /\ UNCHANGED <<startIndex, buildVars, xformVars>>

\* line 81, the walk of collect_images in sub/
StartupWalkSub ==
    /\ actor = "start_listed"
    /\ Walked("start_walked", FinishStartup({}))
    /\ UNCHANGED <<fsVars, rawEvents, permits, sigSince, wsVars>>
    /\ startIndex' = images'
    /\ UNCHANGED <<buildVars, xformVars>>

\* line 81, one turn of the metadata loop of collect_images; the unwrap
StartupStat ==
    /\ actor = "start_walked"
    /\ \E e \in FileEntries(entries) :
        LET read == metadata(e.path, disk, walkable)
            got == found \cup {[path |-> e.path, modified |-> read.modified]}
        IN  IF ~read.ok
            THEN Panic
            ELSE IF FileEntries(entries) = {e}
                 THEN FinishStartup(got)
                 ELSE /\ entries' = entries \ {e}
                      /\ found' = got
                      /\ UNCHANGED <<actor, images, lastScan, sent, queue>>
    /\ UNCHANGED <<fsVars, rawEvents, permits, sigSince, wsVars>>
    /\ startIndex' = images'
    /\ UNCHANGED <<buildVars, xformVars>>

\* lines 84-86: the actor answers the oldest request with a clone of images.
\* A Notified future dropped after it was woken hands its notification back:
\* the permit is stored.
ServeIndex ==
    /\ actor \in {"idle", "woken"}
    /\ queue # <<>>
    /\ LET s == Head(queue) IN
       /\ snapshot' = [snapshot EXCEPT ![s] = images]
       /\ snapPos' = [snapPos EXCEPT ![s] = Len(sent)]
       /\ ws' = [ws EXCEPT ![s] = "got"]
    /\ queue' = Tail(queue)
    /\ actor' = "idle"
    /\ permits' = IF actor = "woken" THEN notify_one(permits, FALSE) ELSE permits
    /\ UNCHANGED <<fsVars, rawEvents, sigSince>>
    /\ UNCHANGED <<entries, found, images, lastScan, sent, cursor, subAt, socket>>
    /\ UNCHANGED <<startIndex, buildVars, xformVars>>

\* lines 87-88: notified() completes, for the woken waiter or by taking the
\* permit, and the walk of collect_images reads the storage root
RescanWalk ==
    /\ \/ actor = "woken" /\ permits' = permits
       \/ actor = "idle" /\ permits > 0 /\ permits' = permits - 1
    /\ sigSince' = 0
    /\ WalkedRoot("listed")
    /\ UNCHANGED <<fsVars, rawEvents, wsVars>>
    /\ UNCHANGED <<startIndex, buildVars, xformVars>>

\* line 88, the walk of collect_images in sub/
RescanWalkSub ==
    /\ actor = "listed"
    /\ Walked("walked", FinishRescan({}))
    /\ UNCHANGED <<fsVars, rawEvents, permits, sigSince, wsVars>>
    /\ UNCHANGED <<startIndex, buildVars, xformVars>>

\* line 88, one turn of the metadata loop; after the last one lines 89-93
RescanStat ==
    /\ actor = "walked"
    /\ \E e \in FileEntries(entries) :
        LET read == metadata(e.path, disk, walkable)
            got == found \cup {[path |-> e.path, modified |-> read.modified]}
        IN  IF ~read.ok
            THEN Panic
            ELSE IF FileEntries(entries) = {e}
                 THEN FinishRescan(got)
                 ELSE /\ entries' = entries \ {e}
                      /\ found' = got
                      /\ UNCHANGED <<actor, images, lastScan, sent, queue>>
    /\ UNCHANGED <<fsVars, rawEvents, permits, sigSince, wsVars>>
    /\ UNCHANGED <<startIndex, buildVars, xformVars>>

(***************************************************************************)
(* handle_websocket (websocket.rs:20-29), one task per connection.         *)
(***************************************************************************)
\* line 21
WsResubscribe(s) ==
    /\ ws[s] = "new"
    /\ cursor' = [cursor EXCEPT ![s] = resubscribe(sent)]
    /\ subAt' = [subAt EXCEPT ![s] = Len(sent)]
    /\ ws' = [ws EXCEPT ![s] = "subscribed"]
    /\ UNCHANGED <<fsVars, rawEvents, permits, sigSince, queue>>
    /\ UNCHANGED <<actorVars, snapshot, snapPos, socket>>
    /\ UNCHANGED <<startIndex, buildVars, xformVars>>

\* line 22, Indexer::index lines 105-106: the request enters the mpsc channel
WsRequestIndex(s) ==
    /\ ws[s] = "subscribed"
    /\ actor # "panicked"
    /\ Len(queue) < IndexCapacity
    /\ queue' = Append(queue, s)
    /\ ws' = [ws EXCEPT ![s] = "waiting"]
    /\ UNCHANGED <<fsVars, rawEvents, permits, sigSince>>
    /\ UNCHANGED <<actorVars, cursor, subAt, snapshot, snapPos, socket>>
    /\ UNCHANGED <<startIndex, buildVars, xformVars>>

\* line 22, Indexer::index lines 106-107: the unwraps when the actor is gone
WsIndexFails(s) ==
    /\ ws[s] \in {"subscribed", "waiting"}
    /\ actor = "panicked"
    /\ ws' = [ws EXCEPT ![s] = "panicked"]
    /\ UNCHANGED <<fsVars, rawEvents, permits, sigSince, queue>>
    /\ UNCHANGED <<actorVars, cursor, subAt, snapshot, snapPos, socket>>
    /\ UNCHANGED <<startIndex, buildVars, xformVars>>

\* lines 23-24: the snapshot is the first message on the socket
\* (WsSendIndexThenSubscribe: the task subscribes after it has its snapshot)
WsSendIndexThenSubscribe(s) ==
    /\ ws[s] = "got"
    /\ socket' = [socket EXCEPT ![s] = Append(@, IndexMessage(snapshot[s]))]
    /\ ws' = [ws EXCEPT ![s] = "streaming"]
    /\ cursor' = [cursor EXCEPT ![s] = resubscribe(sent)]
    /\ UNCHANGED <<fsVars, rawEvents, permits, sigSince, queue>>
    /\ UNCHANGED <<actorVars, subAt, snapshot, snapPos>>
    /\ UNCHANGED <<startIndex, buildVars, xformVars>>

WsSendIndex(s) ==
    /\ ws[s] = "got"
    /\ socket' = [socket EXCEPT ![s] = Append(@, IndexMessage(snapshot[s]))]
    /\ ws' = [ws EXCEPT ![s] = "streaming"]
    /\ UNCHANGED <<fsVars, rawEvents, permits, sigSince, queue>>
    /\ UNCHANGED <<actorVars, cursor, subAt, snapshot, snapPos>>
    /\ UNCHANGED <<startIndex, buildVars, xformVars>>

\* line 25: recv returned Ok(update)
WsRecv(s) ==
    /\ ws[s] = "streaming"
    /\ recv(sent, cursor[s]).result = "Ok"
    /\ cursor' = [cursor EXCEPT ![s] = recv(sent, cursor[s]).next]
    /\ ws' = [ws EXCEPT ![s] = "sending"]
    /\ UNCHANGED <<fsVars, rawEvents, permits, sigSince, queue>>
    /\ UNCHANGED <<actorVars, subAt, snapshot, snapPos, socket>>
    /\ UNCHANGED <<startIndex, buildVars, xformVars>>

\* lines 26-27: the update the task holds reaches the socket
WsForward(s) ==
    /\ ws[s] = "sending"
    /\ socket' = [socket EXCEPT ![s] = Append(@, UpdateMessage(sent[cursor[s]]))]
    /\ ws' = [ws EXCEPT ![s] = "streaming"]
    /\ UNCHANGED <<fsVars, rawEvents, permits, sigSince, queue>>
    /\ UNCHANGED <<actorVars, cursor, subAt, snapshot, snapPos>>
    /\ UNCHANGED <<startIndex, buildVars, xformVars>>

\* line 25: recv returned Err(Lagged) and the loop ends
WsLagged(s) ==
    /\ ws[s] = "streaming"
    /\ recv(sent, cursor[s]).result = "Lagged"
    /\ cursor' = [cursor EXCEPT ![s] = recv(sent, cursor[s]).next]
    /\ ws' = [ws EXCEPT ![s] = "closed"]
    /\ UNCHANGED <<fsVars, rawEvents, permits, sigSince, queue>>
    /\ UNCHANGED <<actorVars, subAt, snapshot, snapPos, socket>>
    /\ UNCHANGED <<startIndex, buildVars, xformVars>>

\* line 25: recv returned Err(Closed), the sender went with the actor task
WsClosed(s) ==
    /\ ws[s] = "streaming"
    /\ recv(sent, cursor[s]).result = "Empty"
    /\ actor = "panicked"
    /\ ws' = [ws EXCEPT ![s] = "closed"]
    /\ UNCHANGED <<fsVars, rawEvents, permits, sigSince, queue>>
    /\ UNCHANGED <<actorVars, cursor, subAt, snapshot, snapPos, socket>>
    /\ UNCHANGED <<startIndex, buildVars, xformVars>>

(***************************************************************************)
(* Builds of the thumbnail.  Each await of a handler is a step, so the     *)
(* handlers of different requests interleave between them.                 *)
(*                                                                         *)
(* tokio's File::write_all returns once the bytes are handed to the        *)
(* blocking pool; only flush waits for the write, and no handler calls it. *)
(* The write reaches the file in a step of its own, WriteLands.            *)
(*                                                                         *)
(* A call that makes a directory, creates a file, writes or copies can     *)
(* fail (a full disk, a permission): each has the branch of its `?` or of  *)
(* its unwrap.                                                             *)
(*                                                                         *)
(* File contents are counted in segments of 8192 bytes, the size of        *)
(* BufReader's buffer: a thumbnail of height h is h + 1 segments, the      *)
(* stored image is one.                                                    *)
(***************************************************************************)
indexVars ==
    <<walkable, fsOps, permits, sigSince, queue, actorVars, wsVars, startIndex>>

\* the storage file of the path is there to be opened
Stored == disk[FileA] # 0

\* how much one read of read_to_end asks of the file: the spare capacity of
\* the Vec when it has any; one segment through BufReader's buffer when the
\* Vec is full at the capacity it started with (the small probe read); else
\* what Vec::reserve adds by doubling the capacity
read_size(vec) ==
    IF vec.capacity > Len(vec.bytes)
    THEN vec.capacity - Len(vec.bytes)
    ELSE IF vec.capacity = vec.starting_capacity /\ vec.capacity > 0
         THEN 1
         ELSE Max(vec.capacity, 1)

\* one read of the file at the position behind the bytes read so far; past
\* the end of the file it brings nothing
poll_read(file, vec) ==
    SubSeq(file, Len(vec.bytes) + 1,
           IF Len(vec.bytes) + read_size(vec) <= Len(file)
           THEN Len(vec.bytes) + read_size(vec) ELSE Len(file))

\* the Vec after a read that brought `chunk`: Vec::reserve doubled the capacity
\* of a Vec that was full
put_slice(vec, chunk) ==
    [vec EXCEPT !.bytes = @ \o chunk,
                !.capacity = IF @ > Len(vec.bytes) THEN @ ELSE Max(2 * @, 1)]

\* image::load_from_memory(&buffer)? begins with the guess of the format,
\* which finds none in no bytes
guess_format(bytes) ==
    IF bytes = NoBytes THEN ImageError("Unsupported(Format)") ELSE ImageOk(bytes)

\* a handler returns
Return(t, r) ==
    /\ result' = [result EXCEPT ![t] = r]
    /\ task' = [task EXCEPT ![t] = "done"]

\* the result of the transform is used without the `?`
TransformUnchecked(t, r) ==
    /\ transforms' = [transforms EXCEPT ![t] = @ + 1]
    /\ held' = [held EXCEPT ![t] = r.bytes]
    /\ task' = [task EXCEPT ![t] = "built"]
    /\ UNCHANGED result

\* spawn_blocking of the decode, resize and encode, and the `?` on its result
Transform(t, r) ==
    /\ transforms' = [transforms EXCEPT ![t] = @ + 1]
    /\ IF r.ok
       THEN /\ held' = [held EXCEPT ![t] = r.bytes]
            /\ task' = [task EXCEPT ![t] = "built"]
            /\ UNCHANGED result
       ELSE /\ Return(t, Failed(r.error))
            /\ UNCHANGED held

\* File::create(..).await returns Ok: the file is there and holds nothing
FileCreate(t) ==
    /\ cacheFile' = FileOf(NoBytes)
    /\ creates' = [creates EXCEPT ![t] = @ + 1]
    /\ task' = [task EXCEPT ![t] = "created"]
    /\ UNCHANGED result

\* the write of a handler reaches the file: at offset 0, over what the file
\* holds, which keeps what lies beyond
WriteLands(t) ==
    /\ pending[t]
    /\ cacheFile' = FileOf(held[t] \o SubSeq(cacheFile.data, Len(held[t]) + 1,
                                             Len(cacheFile.data)))
    /\ pending' = [pending EXCEPT ![t] = FALSE]
    /\ UNCHANGED <<source, stored, task, held, readBuffer, result, transforms, creates>>
    /\ UNCHANGED <<disk, rawEvents, indexVars, xformVars>>

\* images.rs:101 and cache.rs:24, File::open(..).await? of the stored file
OpenStored(t) ==
    /\ task[t] = "sought"
    /\ IF Stored
       THEN /\ task' = [task EXCEPT ![t] = "src_open"]
            /\ UNCHANGED result
       ELSE Return(t, Failed("Io(open)"))
    /\ UNCHANGED <<source, stored, cacheFile, held, readBuffer, pending, transforms, creates>>
    /\ UNCHANGED <<disk, rawEvents, indexVars, xformVars>>

\* file.metadata().await of a file that holds `file`, for the Vec's capacity
Metadata(t, file, next) ==
    /\ readBuffer' = [readBuffer EXCEPT ![t] = with_capacity(Len(file))]
    /\ task' = [task EXCEPT ![t] = next]
    /\ UNCHANGED <<source, stored, cacheFile, held, pending, result, transforms, creates>>
    /\ UNCHANGED <<disk, rawEvents, indexVars, xformVars>>

\* images.rs:27, try_exists of the cache path
ServeCheck(t) ==
    /\ task[t] = "ready"
    /\ task' = [task EXCEPT ![t] = IF cacheFile.exists THEN "hit" ELSE "miss"]
    /\ UNCHANGED <<source, stored, cacheFile, held, readBuffer, pending, result, transforms, creates>>
    /\ UNCHANGED <<disk, rawEvents, indexVars, xformVars>>

\* images.rs:28, File::open of the cached file
ServeOpen(t) ==
    /\ task[t] = "hit"
    /\ task' = [task EXCEPT ![t] = "open"]
    /\ UNCHANGED <<source, stored, cacheFile, held, readBuffer, pending, result, transforms, creates>>
    /\ UNCHANGED <<disk, rawEvents, indexVars, xformVars>>

\* images.rs:29, the length of the cached file becomes the Vec's capacity
ServeMetadata(t) ==
    /\ task[t] = "open"
    /\ Metadata(t, cacheFile.data, "reading")

\* images.rs:30-31, one read of read_to_end into `buffer`, and the return
\* when the read brings nothing
ServeRead(t) ==
    /\ task[t] = "reading"
    /\ LET chunk == poll_read(cacheFile.data, readBuffer[t]) IN
       IF chunk = NoBytes
       THEN /\ Return(t, Returned(readBuffer[t].bytes))
            /\ UNCHANGED readBuffer
       ELSE /\ readBuffer' = [readBuffer EXCEPT ![t] = put_slice(@, chunk)]
            /\ UNCHANGED <<task, result>>
    /\ UNCHANGED <<source, stored, cacheFile, held, pending, transforms, creates>>
    /\ UNCHANGED <<disk, rawEvents, indexVars, xformVars>>

\* images.rs:94-99, try_exists of the stored file, which fails for no file
\* that is there or absent
ServeFind(t) ==
    /\ task[t] = "miss"
    /\ task' = [task EXCEPT ![t] = "sought"]
    /\ UNCHANGED <<source, stored, cacheFile, held, readBuffer, pending, result, transforms, creates>>
    /\ UNCHANGED <<disk, rawEvents, indexVars, xformVars>>

\* images.rs:102 and cache.rs:25, the length of the stored file becomes the
\* Vec's capacity
StoredMetadata(t) ==
    /\ task[t] = "src_open"
    /\ Metadata(t, stored, "src_reading")

\* images.rs:103 and cache.rs:26, one read of read_to_end of the stored file;
\* the read that brings nothing ends it
ReadStored(t) ==
    /\ task[t] = "src_reading"
    /\ LET chunk == poll_read(stored, readBuffer[t]) IN
       IF chunk = NoBytes
       THEN /\ task' = [task EXCEPT ![t] = "loaded"]
            /\ UNCHANGED readBuffer
       ELSE /\ readBuffer' = [readBuffer EXCEPT ![t] = put_slice(@, chunk)]
            /\ UNCHANGED task
    /\ UNCHANGED <<source, stored, cacheFile, held, pending, result, transforms, creates>>
    /\ UNCHANGED <<disk, rawEvents, indexVars, xformVars>>

\* images.rs:105-114 and 34-40, the transform of what was read
ServeLoad(t) ==
    /\ task[t] = "loaded"
    /\ LET image == guess_format(readBuffer[t].bytes) IN
       Transform(t, IF image.ok
                    THEN load_and_resize_plain(image.bytes[1], max_cached_image_size,
                                               jpeg_image_quality)
                    ELSE image)
    /\ UNCHANGED <<source, stored, cacheFile, readBuffer, pending, creates>>
    /\ UNCHANGED <<disk, rawEvents, indexVars, xformVars>>

\* images.rs:42, create_dir_all(..).await?
ServeCreateDir(t) ==
    /\ task[t] = "built"
    /\ \/ task' = [task EXCEPT ![t] = "dir_made"] /\ UNCHANGED result
       \/ Return(t, Failed("Io(create_dir_all)"))
    /\ UNCHANGED <<source, stored, cacheFile, held, readBuffer, pending, transforms, creates>>
    /\ UNCHANGED <<disk, rawEvents, indexVars, xformVars>>

\* images.rs:43-45, File::create(&cache_path).await.unwrap()
ServeCreate(t) ==
    /\ task[t] = "dir_made"
    /\ \/ FileCreate(t)
       \/ Return(t, Panicked) /\ UNCHANGED <<cacheFile, creates>>
    /\ UNCHANGED <<source, stored, held, readBuffer, pending, transforms>>
    /\ UNCHANGED <<disk, rawEvents, indexVars, xformVars>>

\* images.rs:46-50, write_all(&image).await.unwrap() and the return
ServeWrite(t) ==
    /\ task[t] = "created"
    /\ \/ /\ pending' = [pending EXCEPT ![t] = TRUE]
          /\ Return(t, Returned(held[t]))
       \/ Return(t, Panicked) /\ UNCHANGED pending
    /\ UNCHANGED <<source, stored, cacheFile, held, readBuffer, transforms, creates>>
    /\ UNCHANGED <<disk, rawEvents, indexVars, xformVars>>

\* cache.rs:21-23
CacheCheck(t) ==
    /\ task[t] = "ready"
    /\ IF cacheFile.exists
       THEN Return(t, Returned(NoBytes))
       ELSE /\ task' = [task EXCEPT ![t] = "sought"]
            /\ UNCHANGED result
    /\ UNCHANGED <<source, stored, cacheFile, held, readBuffer, pending, transforms, creates>>
    /\ UNCHANGED <<disk, rawEvents, indexVars, xformVars>>

\* cache.rs:28-31
CacheLoad(t) ==
    /\ task[t] = "loaded"
    /\ LET image == guess_format(readBuffer[t].bytes) IN
       Transform(t, IF image.ok
                    THEN load_and_resize(image.bytes[1], max_cached_image_size,
                                         jpeg_image_quality)
                    ELSE image)
    /\ UNCHANGED <<source, stored, cacheFile, readBuffer, pending, creates>>
    /\ UNCHANGED <<disk, rawEvents, indexVars, xformVars>>

\* cache.rs:33-34, File::create(&destination).await?
CacheCreate(t) ==
    /\ task[t] = "built"
    /\ \/ FileCreate(t)
       \/ Return(t, Failed("Io(create)")) /\ UNCHANGED <<cacheFile, creates>>
    /\ UNCHANGED <<source, stored, held, readBuffer, pending, transforms>>
    /\ UNCHANGED <<disk, rawEvents, indexVars, xformVars>>

\* cache.rs:35-37, write_all(&encoded_image).await? and the return
CacheWrite(t) ==
    /\ task[t] = "created"
    /\ \/ /\ pending' = [pending EXCEPT ![t] = TRUE]
          /\ Return(t, Returned(NoBytes))
       \/ Return(t, Failed("Io(write_all)")) /\ UNCHANGED pending
    /\ UNCHANGED <<source, stored, cacheFile, held, readBuffer, transforms, creates>>
    /\ UNCHANGED <<disk, rawEvents, indexVars, xformVars>>

\* upload.rs:45-50, load_and_resize of the uploaded temporary file, which
\* belongs to the request alone: no other step touches it, so its open,
\* metadata and reads bring the whole file whenever they run
UploadLoad(t) ==
    /\ task[t] = "ready"
    /\ Transform(t, load_and_resize_plain(source, max_cached_image_size,
                                          jpeg_image_quality))
    /\ UNCHANGED <<source, stored, cacheFile, readBuffer, pending, creates>>
    /\ UNCHANGED <<disk, rawEvents, indexVars, xformVars>>

\* upload.rs:52-53, File::create(&cache_path).await?
UploadCreate(t) ==
    /\ task[t] = "built"
    /\ \/ FileCreate(t)
       \/ Return(t, Failed("Io(create)")) /\ UNCHANGED <<cacheFile, creates>>
    /\ UNCHANGED <<source, stored, held, readBuffer, pending, transforms>>
    /\ UNCHANGED <<disk, rawEvents, indexVars, xformVars>>

\* upload.rs:54-55, write_all(&resized_image).await?
UploadWrite(t) ==
    /\ task[t] = "created"
    /\ \/ /\ pending' = [pending EXCEPT ![t] = TRUE]
          /\ task' = [task EXCEPT ![t] = "cached"]
          /\ UNCHANGED result
       \/ Return(t, Failed("Io(write_all)")) /\ UNCHANGED pending
    /\ UNCHANGED <<source, stored, cacheFile, held, readBuffer, transforms, creates>>
    /\ UNCHANGED <<disk, rawEvents, indexVars, xformVars>>

\* upload.rs:57, the copy on the blocking pool begins: the file in the
\* storage root is created, or truncated, and holds nothing yet, and the
\* watcher sees it; or the file cannot be created and the copy fails
UploadCopy(t) ==
    /\ task[t] = "cached"
    /\ \/ /\ disk' = [disk EXCEPT ![FileA] = IF @ = 1 THEN MaxMtime ELSE 1]
          /\ stored' = NoBytes
          /\ rawEvents' = rawEvents + 1
          /\ task' = [task EXCEPT ![t] = "copying"]
       \/ /\ task' = [task EXCEPT ![t] = "copy_failed"]
          /\ UNCHANGED <<disk, stored, rawEvents>>
    /\ UNCHANGED <<source, cacheFile, held, readBuffer, pending, result, transforms, creates>>
    /\ UNCHANGED <<indexVars, xformVars>>

\* the copy writes the content into the file, at the modification time of
\* its creation or a later one; or the write fails and the file stays as
\* it was created
UploadCopyLands(t) ==
    /\ task[t] = "copying"
    /\ \/ /\ \E m \in disk[FileA]..MaxMtime : disk' = [disk EXCEPT ![FileA] = m]
          /\ stored' = WholeFile
          /\ rawEvents' = rawEvents + 1
          /\ task' = [task EXCEPT ![t] = "copied"]
       \/ /\ task' = [task EXCEPT ![t] = "copy_failed"]
          /\ UNCHANGED <<disk, stored, rawEvents>>
    /\ UNCHANGED <<source, cacheFile, held, readBuffer, pending, result, transforms, creates>>
    /\ UNCHANGED <<indexVars, xformVars>>

\* upload.rs:57-58, the copy is awaited: its `?` and the return
UploadReturn(t) ==
    /\ task[t] \in {"copied", "copy_failed"}
    /\ Return(t, IF task[t] = "copied" THEN Returned(NoBytes) ELSE Failed("Io(copy)"))
    /\ UNCHANGED <<source, stored, cacheFile, held, readBuffer, pending, transforms, creates>>
    /\ UNCHANGED <<disk, rawEvents, indexVars, xformVars>>

(***************************************************************************)
(* A call of the transform of cache.rs on its own.                         *)
(***************************************************************************)
\* cache.rs:40-75, one call
LoadAndResize ==
    /\ tout = NotCalled
    /\ tout' = load_and_resize(tin.buffer, tin.max_size, tin.quality)
    /\ UNCHANGED <<tin, disk, rawEvents, indexVars, buildVars>>

(***************************************************************************)
(* Specifications.                                                         *)
(***************************************************************************)
\* Runs in which the images under the storage root are created, rewritten and
\* removed and the root changes its permission, with one connection.  A
\* run has fewer Updates than the broadcast buffer has slots, so recv never
\* returns Lagged here: WsLagged is a step of SpecLag.
Next ==
    \/ \E f \in EligibleFiles, m \in Mtimes : FsWrite(f, m, MaxFsOps)
    \/ \E f \in EligibleFiles : FsRemove(f, MaxFsOps)
    \/ FsChmod(MaxFsOps)
    \/ DebouncerTick
    \/ StartupWalk
    \/ StartupWalkSub
    \/ StartupStat
    \/ ServeIndex
    \/ RescanWalk
    \/ RescanWalkSub
    \/ RescanStat
    \/ \E s \in Clients : WsResubscribe(s)
    \/ \E s \in Clients : WsRequestIndex(s)
    \/ \E s \in Clients : WsIndexFails(s)
    \/ \E s \in Clients : WsSendIndex(s)
    \/ \E s \in Clients : WsRecv(s)
    \/ \E s \in Clients : WsForward(s)
    \/ \E s \in Clients : WsClosed(s)

Spec == Init /\ [][Next]_vars

\* Runs in which one image is removed and created over and over, long enough
\* for a connection to fall behind the whole broadcast buffer.  Each change is
\* made once the previous one has been indexed, no connection is between its
\* resubscribe and its first message, and the connection w2, a prompt reader,
\* has nothing left to do; the connection w1 is free to be slow.
Settled == rawEvents = 0 /\ permits = 0 /\ actor = "idle"

Prompt(s) ==
    \/ ws[s] = "new"
    \/ ws[s] = "streaming" /\ cursor[s] = Len(sent)

Steady(s) == ws[s] \notin {"subscribed", "waiting", "got"}

SlowChange == Settled /\ Prompt("w2") /\ \A s \in Subscribers : Steady(s)

InitLag ==
    /\ disk = [f \in Files |-> IF f = FileA THEN 1 ELSE 0]
    /\ InitCommon
    /\ BuildIdle
    /\ TransformIdle

NextLag ==
    \/ SlowChange /\ FsWrite(FileA, 1, MaxLagOps)
    \/ SlowChange /\ FsRemove(FileA, MaxLagOps)
    \/ DebouncerTick
    \/ StartupWalk
    \/ StartupWalkSub
    \/ StartupStat
    \/ ServeIndex
    \/ RescanWalk
    \/ RescanWalkSub
    \/ RescanStat
    \/ \E s \in Subscribers : WsResubscribe(s)
    \/ \E s \in Subscribers : WsRequestIndex(s)
    \/ \E s \in Subscribers : WsSendIndex(s)
    \/ \E s \in Subscribers : WsRecv(s)
    \/ \E s \in Subscribers : WsForward(s)
    \/ \E s \in Subscribers : WsLagged(s)

SpecLag == InitLag /\ [][NextLag]_vars

\* Requests for one path: two GETs, one cache_image call and one upload, over
\* a stored file that is there or not and decodes or not.
InitCache ==
    /\ disk \in {[f \in Files |-> 0], [f \in Files |-> IF f = FileA THEN 1 ELSE 0]}
    /\ InitCommon
    /\ source \in Sources
    /\ stored = IF Stored THEN WholeFile ELSE NoBytes
    /\ cacheFile = NoFile
    /\ task = [t \in Tasks |-> "ready"]
    /\ held = [t \in Tasks |-> NoBytes]
    /\ readBuffer = [t \in Tasks |-> with_capacity(0)]
    /\ pending = [t \in Tasks |-> FALSE]
    /\ result = [t \in Tasks |-> NoResult]
    /\ transforms = [t \in Tasks |-> 0]
    /\ creates = [t \in Tasks |-> 0]
    /\ TransformIdle

NextCache ==
    \/ \E t \in Servers : ServeCheck(t)
    \/ \E t \in Servers : ServeOpen(t)
    \/ \E t \in Servers : ServeMetadata(t)
    \/ \E t \in Servers : ServeRead(t)
    \/ \E t \in Servers : ServeFind(t)
    \/ \E t \in Builders : OpenStored(t)
    \/ \E t \in Builders : StoredMetadata(t)
    \/ \E t \in Builders : ReadStored(t)
    \/ \E t \in Servers : ServeLoad(t)
    \/ \E t \in Servers : ServeCreateDir(t)
    \/ \E t \in Servers : ServeCreate(t)
    \/ \E t \in Servers : ServeWrite(t)
    \/ \E t \in Cachers : CacheCheck(t)
    \/ \E t \in Cachers : CacheLoad(t)
    \/ \E t \in Cachers : CacheCreate(t)
    \/ \E t \in Cachers : CacheWrite(t)
    \/ \E t \in Uploads : UploadLoad(t)
    \/ \E t \in Uploads : UploadCreate(t)
    \/ \E t \in Uploads : UploadWrite(t)
    \/ \E t \in Uploads : UploadCopy(t)
    \/ \E t \in Uploads : UploadCopyLands(t)
    \/ \E t \in Uploads : UploadReturn(t)
    \/ \E t \in Tasks : WriteLands(t)

SpecCache == InitCache /\ [][NextCache]_vars

\* Requests of serve_and_cache for one path that come one after the other: a
\* request takes its steps while no other request is under way.  The writes
\* handed to the blocking pool land when they land.
NextSeq ==
    \/ \E t \in Servers :
          (\A u \in Servers \ {t} : task[u] \in {"ready", "done"}) /\ ServeCheck(t)
    \/ \E t \in Servers :
          (\A u \in Servers \ {t} : task[u] \in {"ready", "done"}) /\ ServeOpen(t)
    \/ \E t \in Servers :
          (\A u \in Servers \ {t} : task[u] \in {"ready", "done"}) /\ ServeMetadata(t)
    \/ \E t \in Servers :
          (\A u \in Servers \ {t} : task[u] \in {"ready", "done"}) /\ ServeRead(t)
    \/ \E t \in Servers :
          (\A u \in Servers \ {t} : task[u] \in {"ready", "done"}) /\ ServeFind(t)
    \/ \E t \in Servers :
          (\A u \in Servers \ {t} : task[u] \in {"ready", "done"}) /\ OpenStored(t)
    \/ \E t \in Servers :
          (\A u \in Servers \ {t} : task[u] \in {"ready", "done"}) /\ StoredMetadata(t)
    \/ \E t \in Servers :
          (\A u \in Servers \ {t} : task[u] \in {"ready", "done"}) /\ ReadStored(t)
    \/ \E t \in Servers :
          (\A u \in Servers \ {t} : task[u] \in {"ready", "done"}) /\ ServeLoad(t)
    \/ \E t \in Servers :
          (\A u \in Servers \ {t} : task[u] \in {"ready", "done"}) /\ ServeCreateDir(t)
    \/ \E t \in Servers :
          (\A u \in Servers \ {t} : task[u] \in {"ready", "done"}) /\ ServeCreate(t)
    \/ \E t \in Servers :
          (\A u \in Servers \ {t} : task[u] \in {"ready", "done"}) /\ ServeWrite(t)
    \/ \E t \in Servers : WriteLands(t)

SpecSeq == InitCache /\ [][NextSeq]_vars

\* One upload into an empty storage root, with the actor, the watcher and one
\* connection running.
InitUpload ==
    /\ disk = [f \in Files |-> 0]
    /\ InitCommon
    /\ source = GoodSource
    /\ stored = NoBytes
    /\ cacheFile = NoFile
    /\ task = [t \in Tasks |-> IF t \in Uploads THEN "ready" ELSE "off"]
    /\ held = [t \in Tasks |-> NoBytes]
    /\ readBuffer = [t \in Tasks |-> with_capacity(0)]
    /\ pending = [t \in Tasks |-> FALSE]
    /\ result = [t \in Tasks |-> NoResult]
    /\ transforms = [t \in Tasks |-> 0]
    /\ creates = [t \in Tasks |-> 0]
    /\ TransformIdle

NextUpload ==
    \/ \E t \in Uploads : UploadLoad(t)
    \/ \E t \in Uploads : UploadCreate(t)
    \/ \E t \in Uploads : UploadWrite(t)
    \/ \E t \in Uploads : UploadCopy(t)
    \/ \E t \in Uploads : UploadCopyLands(t)
    \/ \E t \in Uploads : UploadReturn(t)
    \/ \E t \in Uploads : WriteLands(t)
    \/ DebouncerTick
    \/ StartupWalk
    \/ StartupWalkSub
    \/ StartupStat
    \/ ServeIndex
    \/ RescanWalk
    \/ RescanWalkSub
    \/ RescanStat
    \/ \E s \in Clients :
        \/ WsResubscribe(s)
        \/ WsRequestIndex(s)
        \/ WsSendIndex(s)
        \/ WsRecv(s)
        \/ WsForward(s)

SpecUpload == InitUpload /\ [][NextUpload]_vars

\* load_and_resize of cache.rs over every buffer, bound and quality
InitTransform ==
    /\ disk = [f \in Files |-> 0]
    /\ InitCommon
    /\ BuildIdle
    /\ tin \in TransformInputs
    /\ tout = NotCalled

NextTransform == LoadAndResize

SpecTransform == InitTransform /\ [][NextTransform]_vars

\* Scans of a storage root holding any of ScanFiles, with one connection.  The
\* root changes only while the actor waits, so that a scan sees one tree.
InitScan ==
    /\ disk \in [ScanFiles -> {0, 1}]
    /\ InitCommon
    /\ BuildIdle
    /\ TransformIdle

NextScan ==
    \/ \E f \in ScanFiles : actor = "idle" /\ FsWrite(f, 1, MaxScanOps)
    \/ \E f \in ScanFiles : actor = "idle" /\ FsRemove(f, MaxScanOps)
    \/ DebouncerTick
    \/ StartupWalk
    \/ StartupWalkSub
    \/ StartupStat
    \/ ServeIndex
    \/ RescanWalk
    \/ RescanWalkSub
    \/ RescanStat
    \/ \E s \in Clients :
        \/ WsResubscribe(s)
        \/ WsRequestIndex(s)
        \/ WsSendIndex(s)
        \/ WsRecv(s)
        \/ WsForward(s)

SpecScan == InitScan /\ [][NextScan]_vars

(***************************************************************************)
(* Properties.                                                             *)
(***************************************************************************)
Paths(index) == {i.path : i \in index}

HasSnapshot(s) == ws[s] \in {"got", "streaming", "sending", "closed"}

\* the Updates a connection has sent on its socket, after the first message
ForwardedUpdates(s) ==
    IF socket[s] = <<>>
    THEN <<>>
    ELSE [i \in 1..(Len(socket[s]) - 1) |-> socket[s][i + 1].update]

\* the Update a connection received and has not sent on its socket yet
HeldUpdates(s) == IF ws[s] = "sending" THEN <<sent[cursor[s]]>> ELSE <<>>

\* the Updates a connection can still receive
PendingUpdates(s) == SubSeq(sent, cursor[s] + 1, Len(sent))

\* the Updates of a connection: sent on, in hand, and to come
Stream(s) == ForwardedUpdates(s) \o HeldUpdates(s) \o PendingUpdates(s)

\* the rescans the signals raised so far will still start
OwedRescans == permits + (IF actor = "woken" THEN 1 ELSE 0)

\* a set of paths after the Updates of a sequence, applied in order
RECURSIVE ApplyUpdates(_, _)
ApplyUpdates(paths, updates) ==
    IF updates = <<>>
    THEN paths
    ELSE ApplyUpdates((paths \cup Paths(Head(updates).additions))
                          \ Paths(Head(updates).deletions),
                      Tail(updates))

\* C1: the Index the actor holds is always the result of the last completed
\* collect_images, whole, and every snapshot the actor returns is that result.
C1_SnapshotIsLastCompletedScan ==
    /\ [](actor \in {"idle", "woken", "listed", "walked"}
            => (lastScan.ok /\ images = lastScan.images))
    /\ [][\A s \in Subscribers :
             (ws[s] = "waiting" /\ ws'[s] = "got")
                 => (lastScan.ok /\ snapshot'[s] = lastScan.images)]_vars

\* a snapshot was returned after a rescan had replaced the Index
C1_Witness ==
    \E s \in Subscribers :
        /\ HasSnapshot(s)
        /\ snapPos[s] > 0
        /\ sent[snapPos[s]].deletions # {}
        /\ snapshot[s] = lastScan.images

\* C2: a snapshot request that is waiting while a rescan is in progress can be
\* answered at once, without the rescan finishing first.
C2_SnapshotNeverWaitsForRescan ==
    (actor \in {"listed", "walked"} /\ queue # <<>>) => ENABLED ServeIndex

\* C3: however many notify signals were raised since the actor last began
\* a rescan, they make it run exactly one, which leaves none to run, and a
\* step of the system broadcasts at most one Update.
C3_SignalsCoalesce ==
    /\ [](OwedRescans = IF sigSince > 0 THEN 1 ELSE 0)
    /\ [][sigSince' = 0 => OwedRescans' = 0]_vars
    /\ [][Len(sent') <= Len(sent) + 1]_vars

\* C4: every Update on the broadcast channel has an addition or a deletion.
C4_NoEmptyUpdate ==
    \A i \in 1..Len(sent) : sent[i].additions # {} \/ sent[i].deletions # {}

\* a rescan that found the same paths (a file rewritten) completed, nothing sent
C4_Witness ==
    /\ Settled
    /\ fsOps >= 1
    /\ sent = <<>>
    /\ \E i \in images : i.modified > 1

\* C5 as stated: no connection ever loses an Update emitted after it
\* subscribed: what it forwarded and what it can still receive are together
\* every Update since its subscription, and its loop ends only with the channel.
C5_EveryUpdateReceived ==
    \A s \in Subscribers :
        /\ ws[s] \in {"streaming", "sending"}
              => /\ recv(sent, cursor[s]).result # "Lagged"
                 /\ Stream(s) = SubSeq(sent, subAt[s] + 1, Len(sent))
        /\ ws[s] = "closed" => actor = "panicked"

\* C5 amended: what a connection forwarded is the run of Updates that starts
\* right after its subscription, in broadcast order, none twice, none from
\* before; and until it is more than the buffer behind, the rest is pending.
C5_ForwardedInOrderUntilLagged ==
    \A s \in Subscribers :
        /\ ForwardedUpdates(s)
               = SubSeq(sent, subAt[s] + 1, subAt[s] + Len(ForwardedUpdates(s)))
        /\ (ws[s] \in {"streaming", "sending"} /\ Len(sent) - cursor[s] <= BufferSlots)
              => Stream(s) = SubSeq(sent, subAt[s] + 1, Len(sent))

\* a connection that subscribed after the first Update forwarded two later ones
C5_Witness ==
    \E s \in Subscribers :
        /\ subAt[s] >= 1
        /\ Len(ForwardedUpdates(s)) >= 2

\* C6: for a connection that has its snapshot, every Update emitted after the
\* snapshot was taken is in its stream once, forwarded or still pending, and
\* the snapshot with those Updates applied is the Index the actor holds.
C6_NoGapAfterSnapshot ==
    \A s \in Subscribers :
        (ws[s] \in {"got", "streaming", "sending"}
            /\ actor \in {"idle", "woken", "listed", "walked"})
            => LET stream == Stream(s)
                   after == SubSeq(sent, snapPos[s] + 1, Len(sent))
               IN /\ Len(stream) >= Len(after)
                  /\ SubSeq(stream, Len(stream) - Len(after) + 1, Len(stream)) = after
                  /\ ApplyUpdates(Paths(snapshot[s]), after) = Paths(images)

\* a connection forwarded an addition the actor processed after its snapshot
C6_Witness ==
    \E s \in Subscribers :
        /\ ws[s] = "streaming"
        /\ cursor[s] > snapPos[s]
        /\ sent[cursor[s]].additions # {}
        /\ ForwardedUpdates(s) # <<>>
        /\ ForwardedUpdates(s)[Len(ForwardedUpdates(s))] = sent[cursor[s]]

\* C7: no Update is emitted between a connection's subscribe and its snapshot,
\* so no Update in its stream adds an image its snapshot already holds.
C7_SubscribeThenSnapshotAtomic ==
    \A s \in Subscribers :
        HasSnapshot(s)
            => /\ snapPos[s] = subAt[s]
               /\ \A k \in (subAt[s] + 1)..snapPos[s] :
                      Paths(sent[k].additions) \cap Paths(snapshot[s]) = {}

\* C8: the actor's send is ready whatever the connections have left unread, a
\* connection with an Update to receive can forward it whatever the others
\* do, and the connection that is more than the buffer behind is the one that
\* loses: its next recv skips to the oldest Update the buffer still holds.
C8_SlowReceiverStallsNobody ==
    /\ actor = "walked" => ENABLED RescanStat
    /\ actor = "listed" => ENABLED RescanWalkSub
    /\ (actor = "woken" \/ (actor = "idle" /\ permits > 0)) => ENABLED RescanWalk
    /\ \A s \in Subscribers :
          /\ ws[s] = "sending" => ENABLED WsForward(s)
          /\ (ws[s] = "streaming" /\ cursor[s] < Len(sent))
                => \/ ENABLED WsRecv(s)
                   \/ /\ Len(sent) - cursor[s] > BufferSlots
                      /\ ENABLED WsLagged(s)
                      /\ recv(sent, cursor[s]).next = Len(sent) - BufferSlots

\* one connection is behind the whole buffer, the other forwarded everything
C8_Witness ==
    \E s, t \in Subscribers :
        /\ ws[s] = "streaming"
        /\ Len(sent) - cursor[s] > BufferSlots
        /\ ws[t] = "streaming"
        /\ cursor[t] = Len(sent)
        /\ Len(ForwardedUpdates(t)) >= 1

\* C9: a failed collect_images never ends the actor task.
C9_ActorSurvivesFailedScan == actor # "panicked"

\* C10: once no raw event, no permit and no rescan is left, the Index holds
\* exactly the image files on disk.
C10_IndexConverges ==
    Settled => Paths(images) = {f \in EligibleFiles : disk[f] # 0}

\* add a.jpg, delete sub/b.PNG, delete a.jpg, each indexed: no image is left
C10_Witness ==
    /\ Settled
    /\ Len(sent) = 3
    /\ Paths(sent[1].additions) = {FileA}
    /\ Paths(sent[2].deletions) = {FileB}
    /\ Paths(sent[3].deletions) = {FileA}
    /\ Paths(images) = {}

(***************************************************************************)
(* Claims about the Updates of a rescan.                                   *)
(***************************************************************************)
\* the step in which a rescan ends and the Index is replaced
RescanCompletes == (RescanWalkSub \/ RescanStat) /\ actor' = "idle"
LastSent == sent[Len(sent)]

\* C17: the Update of a rescan is the difference of the previous Index and
\* the new scan by path: additions are the new images whose path the Index
\* did not hold, deletions the Index's images whose path the scan no longer
\* holds, no path is in both, and the Update is broadcast when not empty.
C17_UpdateIsPathDifference ==
    [][RescanCompletes =>
        LET added == Paths(images') \ Paths(images)
            deleted == Paths(images) \ Paths(images')
        IN  IF added = {} /\ deleted = {}
            THEN sent' = sent
            ELSE /\ sent' = Append(sent, sent'[Len(sent')])
                 /\ sent'[Len(sent')].additions = {i \in images' : i.path \in added}
                 /\ sent'[Len(sent')].deletions = {i \in images : i.path \in deleted}
                 /\ Paths(sent'[Len(sent')].additions)
                        \cap Paths(sent'[Len(sent')].deletions) = {}]_vars

\* one rescan found a file gone and another one new
C17_Witness ==
    /\ sent # <<>>
    /\ Paths(LastSent.additions) = {FileA}
    /\ Paths(LastSent.deletions) = {FileB}
    /\ Paths(images) = {FileA}

\* C18: applying the Updates emitted so far, in order, to the Index of the
\* actor's startup gives the Index the actor holds now.
C18_UpdatesSumToNetChange ==
    ApplyUpdates(Paths(startIndex), sent) = Paths(images)

\* delete sub/b.PNG, add a.jpg, add sub/b.PNG again: both are in the Index
C18_Witness ==
    /\ actor = "idle"
    /\ Paths(startIndex) = {FileB}
    /\ Len(sent) = 3
    /\ Paths(sent[1].deletions) = {FileB}
    /\ Paths(sent[2].additions) = {FileA}
    /\ Paths(sent[3].additions) = {FileB}
    /\ Paths(images) = {FileA, FileB}

\* C19 as stated: a file whose modification time differs between two
\* consecutive scans, its path unchanged, is in the Update of the rescan.
C19_ModifiedFileReported ==
    [][RescanCompletes =>
        \A i \in images : \A j \in images' :
            (i.path = j.path /\ i.modified # j.modified)
                => /\ sent' # sent
                   /\ i.path \in Paths(sent'[Len(sent')].additions)
                                    \cup Paths(sent'[Len(sent')].deletions)]_vars

\* C19, amended: a rescan stores the modification time it read in the Index, but
\* a file whose path is in both scans is in neither list of the Update,
\* whatever its modification time: a change of the time alone is not
\* broadcast.
C19_ModifiedFileNotReported ==
    [][RescanCompletes =>
        \A i \in images : \A j \in images' :
            i.path = j.path
                => /\ j \in found \/ j.modified = disk[j.path]
                   /\ sent' # sent =>
                        i.path \notin Paths(sent'[Len(sent')].additions)
                                        \cup Paths(sent'[Len(sent')].deletions)]_vars

\* the Index holds a newer modification time than at startup and no
\* Update was ever sent
C19_Witness ==
    /\ actor = "idle"
    /\ sent = <<>>
    /\ \E i \in startIndex : \E j \in images :
            i.path = j.path /\ i.modified # j.modified

(***************************************************************************)
(* Claims about the thumbnail cache.                                       *)
(***************************************************************************)

\* bytes that are the whole encoding of one picture
IsThumbnail(data) ==
    /\ data # NoBytes
    /\ data = Encode(data[1].picture, data[1].quality)

\* the picture and the quality encoded in bytes
PictureOf(bytes) == bytes[1].picture
QualityOf(bytes) == bytes[1].quality

\* C11: at most one build of a destination is in progress: concurrent
\* build-or-fetch calls for one uncached destination invoke the transform
\* once and write the file once.
C11_OneBuildPerDestination ==
    /\ Cardinality({t \in Builders : transforms[t] > 0 /\ held[t] # NoBytes}) <= 1
    /\ Cardinality({t \in Builders : creates[t] > 0}) <= 1

\* C12: a reader whose existence check finds the file returns the complete
\* bytes of a thumbnail, never an empty or partly written file.
C12_ReadersSeeCompleteFile ==
    \A t \in Servers :
        (task[t] = "done" /\ result[t].state = "ok" /\ creates[t] = 0)
            => IsThumbnail(result[t].data)

\* C13: once the file exists, build-or-fetch returns its bytes without a
\* transform or a write: of two calls one after the other (SpecSeq), only the
\* first writes and both return the same bytes.
C13_SecondCallReturnsSameBytes ==
    \A t \in Servers : \A u \in Servers \ {t} :
        ( /\ \A o \in Cachers \cup Uploads : task[o] = "ready"
          /\ task[t] = "done" /\ result[t].state = "ok" /\ creates[t] = 1
          /\ task[u] = "done" /\ result[u].state = "ok" /\ creates[u] = 0 )
            => /\ transforms[u] = 0
               /\ result[u].data = result[t].data

\* C14: a build that fails in reading or transforming the source, for a
\* missing source, a decode failure or an unsupported orientation, returns
\* the error and has not created the destination, whatever creates, writes
\* and copies fail elsewhere: the file exists only if some build produced
\* bytes for it, so a later call builds again.
C14_FailedBuildLeavesNoFile ==
    /\ \A t \in Tasks :
          ( /\ result[t].state = "err"
            /\ result[t].error \in {"Io(open)", "Decoding", "Unsupported(Format)",
                                    "Unsupported(GenericFeature)", "Unsupported(Color)"} )
              => creates[t] = 0 /\ task[t] = "done"
    /\ \A t \in Tasks :
          (task[t] \in {"sought", "src_open", "src_reading", "loaded"}) => creates[t] = 0
    /\ cacheFile.exists => \E t \in Tasks : creates[t] > 0 /\ IsThumbnail(held[t])

\* two requests failed one after the other on a file that does not decode
C14_Witness ==
    /\ result["s1"] = Failed("Decoding")
    /\ result["s2"] = Failed("Decoding")
    /\ transforms["s1"] = 1 /\ transforms["s2"] = 1
    /\ result["c1"].state = "err"
    /\ cacheFile = NoFile

\* C15: whenever the uploaded file is in the storage root, its thumbnail is
\* completely written at the same path under the cache root.
C15_ThumbnailBeforeStorage ==
    \A t \in Uploads :
        (task[t] = "done" /\ result[t].state = "ok")
            => cacheFile.exists /\ IsThumbnail(cacheFile.data)

\* C16: once an upload has returned Ok, the next snapshot the actor returns
\* holds the uploaded image, whether or not the watcher has notified and a
\* rescan has run.
C16_InsertOnUpload ==
    \A t \in Uploads :
        (task[t] = "done" /\ result[t].state = "ok" /\ ENABLED ServeIndex)
            => FileA \in Paths(images)

(***************************************************************************)
(* Claims about the transform.                                             *)
(***************************************************************************)
\* the EXIF table: where the corners <<top-left, top-right, bottom-right,
\* bottom-left>> of the upright picture come from, and whether the sides
\* change places
Layout(o) ==
    CASE o \in {0, 1} -> <<1, 2, 3, 4>>
      [] o = 2 -> <<2, 1, 4, 3>>
      [] o = 3 -> <<3, 4, 1, 2>>
      [] o = 4 -> <<4, 3, 2, 1>>
      [] o = 5 -> <<1, 4, 3, 2>>
      [] o = 6 -> <<4, 1, 2, 3>>
      [] o = 7 -> <<3, 2, 1, 4>>
      [] o = 8 -> <<2, 3, 4, 1>>
SidesSwap(o) == o \in {5, 6, 7, 8}

\* the orientation the transform goes by: the tag, 1 without a readable one
TagOf(buffer) ==
    IF buffer.exif.state = "uint" THEN buffer.exif.value ELSE 1

\* C20: for a source that decodes, the transform resizes and then turns the
\* resized picture by the EXIF table (0 and 1, and a missing or unreadable
\* tag: unchanged; 2 flip-horizontal; 3 rotate-180; 4 flip-vertical; 5
\* rotate-90 then flip-horizontal; 6 rotate-90; 7 rotate-270 then
\* flip-horizontal; 8 rotate-270); any other value gives the unsupported
\* error and no bytes.
C20_OrientationTable ==
    (tout # NotCalled /\ tin.buffer.decodable) =>
        LET o == TagOf(tin.buffer)
            r == resize(tin.buffer.picture, tin.max_size, tin.max_size)
        IN  IF o \in 0..8
            THEN tin.buffer.color \in JpegColors
                   => /\ tout.ok
                      /\ IsThumbnail(tout.bytes)
                      /\ QualityOf(tout.bytes) = tin.quality
                      /\ PictureOf(tout.bytes).w = (IF SidesSwap(o) THEN r.h ELSE r.w)
                      /\ PictureOf(tout.bytes).h = (IF SidesSwap(o) THEN r.w ELSE r.h)
                      /\ PictureOf(tout.bytes).px = [k \in 1..4 |-> r.px[Layout(o)[k]]]
            ELSE /\ ~tout.ok
                 /\ tout.error = "Unsupported(GenericFeature)"
                 /\ tout.bytes = NoBytes

\* a 3x1 picture tagged 5, bound 2: resized to 2x1, then transposed
C20_Witness ==
    /\ tin.buffer.decodable
    /\ tin.buffer.exif = ExifField("uint", 5)
    /\ tin.buffer.picture = Picture(3, 1, Corners)
    /\ tin.max_size = 2
    /\ tout.ok
    /\ PictureOf(tout.bytes) = Picture(1, 2, <<"p", "s", "r", "q">>)

(***************************************************************************)
(* Claims about what a scan collects.                                      *)
(***************************************************************************)
\* the step in which a scan, the first or a later one, ends
ScanCompletes ==
    (StartupWalkSub \/ StartupStat \/ RescanWalkSub \/ RescanStat) /\ actor' = "idle"

\* the regular files of a tree whose extension is one of the four, in any
\* case
ImageNames ==
    {p \in ScanFiles : p.ext \in {"jpg", "JPG", "jpeg", "JpEg", "png", "PNG", "heic"}}
RegularImages(d) == {p \in DOMAIN d : d[p] # 0 /\ p \notin Symlinks /\ p \in ImageNames}
UpdatePaths(u) == Paths(u.additions) \cup Paths(u.deletions)

\* C21: a scan puts into the Index exactly the regular files under the
\* storage root, at any depth, whose extension is jpg, jpeg, png or heic in
\* any case; directories and other files are in no snapshot and no Update.
C21_ScanCollectsImageFiles ==
    [][ /\ ScanCompletes => Paths(images') = RegularImages(disk)
        /\ \A s \in Subscribers : Paths(snapshot'[s]) \subseteq ImageNames \ Symlinks
        /\ \A k \in 1..Len(sent') : UpdatePaths(sent'[k]) \subseteq ImageNames \ Symlinks
        /\ \A i \in images' : i.path \notin Dirs ]_vars

\* a scan of a root holding files of every kind kept the images among them
C21_Witness ==
    /\ actor = "idle"
    /\ \A f \in {FileB, FileC, FileD, FileE, FileL, FileN} : disk[f] # 0
    /\ Paths(images) = {FileB, FileC, FileD}
    /\ \E s \in Clients : Paths(snapshot[s]) = {FileB, FileC, FileD}

(***************************************************************************)
(* Claims about the channel of Updates.                                    *)
(***************************************************************************)
\* how many Updates a connection has still to receive
Behind(s) == Len(sent) - cursor[s]

\* what a connection forwarded is the run of Updates right after its
\* subscription, and it has received exactly those
GapFree(s) ==
    /\ ForwardedUpdates(s)
           = SubSeq(sent, subAt[s] + 1, subAt[s] + Len(ForwardedUpdates(s)))
    /\ ws[s] = "streaming" => cursor[s] = subAt[s] + Len(ForwardedUpdates(s))
    /\ ws[s] = "sending" => cursor[s] = subAt[s] + Len(ForwardedUpdates(s)) + 1

\* C22 as stated: what a connection forwards is a gap-free run of the
\* broadcast sequence from its subscription on, and a connection more than
\* the channel capacity of 10 behind gets an error from recv and stops.
C22_LaggedBeyondCapacity ==
    \A s \in Subscribers :
        /\ GapFree(s)
        /\ (ws[s] = "streaming" /\ Behind(s) > UpdatesCapacity)
              => /\ recv(sent, cursor[s]).result = "Lagged"
                 /\ ~ENABLED WsRecv(s)

\* C22 amended: what a connection forwards is a gap-free run of the
\* broadcast sequence from its subscription on; recv returns the error, and
\* the loop ends without forwarding, when the connection is more than the 16
\* slots of the buffer behind, and up to 16 behind it receives the next one.
C22_GapFreeUntilBufferOverrun ==
    \A s \in Subscribers :
        /\ GapFree(s)
        /\ (ws[s] = "streaming" /\ Behind(s) > BufferSlots)
              => /\ recv(sent, cursor[s]).result = "Lagged"
                 /\ ENABLED WsLagged(s)
                 /\ ~ENABLED WsRecv(s)
        /\ (ws[s] = "streaming" /\ Behind(s) \in 1..BufferSlots)
              => /\ ENABLED WsRecv(s)
                 /\ ~ENABLED WsLagged(s)
        /\ ws[s] = "closed" => (~ENABLED WsRecv(s) /\ ~ENABLED WsForward(s))

\* a connection lost an Update and its loop ended, another one received the
\* whole run, more than 10 of them
C22_Witness ==
    \E s, t \in Subscribers :
        /\ ws[s] = "closed"
        /\ actor = "idle"
        /\ Len(sent) - subAt[s] > BufferSlots
        /\ Len(ForwardedUpdates(s)) < Len(sent) - subAt[s] - 1
        /\ ws[t] = "streaming"
        /\ Len(ForwardedUpdates(t)) > UpdatesCapacity

\* C23: the send of an Update never fails for lack of receivers, whatever
\* the number of websocket connections: a rescan whose collect_images
\* succeeded does not end the actor, and its Update, when there is one, is
\* in the channel afterwards.
C23_SendNeverFails ==
    [][ /\ send_ok(LiveCursors)
        /\ RescanCompletes
              => LET updates == detect_updates(images, images') IN
                 ShouldSend(updates) => sent' = Append(sent, updates)
        /\ ((RescanWalk \/ RescanWalkSub \/ RescanStat) /\ actor' = "panicked")
              => \/ ~walkable
                 \/ \E e \in FileEntries(entries) :
                        ~metadata(e.path, disk, walkable).ok ]_vars

\* two Updates were sent while no websocket had ever connected
C23_Witness ==
    /\ actor = "idle"
    /\ Len(sent) >= 2
    /\ \A s \in Subscribers : ws[s] = "new"
    /\ DOMAIN LiveCursors = {}

=============================================================================
